---- MODULE Spec2Model ----
(***************************************************************************)
(* A model of the two utilities of ksim:                                   *)
(*   - ksim/mjx_gym/envs/default_humanoid_env/rewards.py: the reward       *)
(*     components and the combined reward function of get_reward_fn;       *)
(*   - ksim/scripts/process_mjcf.py: Sim2SimRobot.adapt_world and save,    *)
(*     acting on an ElementTree document.                                  *)
(* Floating-point numbers are modelled by integers; the positions are      *)
(* multiples of every time step, so that the division of forward_reward_fn *)
(* is exact.  An Optional[str] is a sequence of length at most one: <<>>   *)
(* is None and <<s>> is the string s.                                      *)
(***************************************************************************)
EXTENDS Integers, Sequences, FiniteSets, TLC

VARIABLES
    rpc,                       \* position of the reward-side caller
    reward_params,             \* get_reward_fn's reward_params (an ordered dict)
    dt,                        \* get_reward_fn's dt
    include_reward_breakdown,  \* get_reward_fn's include_reward_breakdown
    state,                     \* reward_fn's state
    action,                    \* reward_fn's action
    next_state,                \* reward_fn's next_state
    out,                       \* what the last call returned
    mpc,                       \* position of the MJCF script
    tree,                      \* self.tree: the elements of the document, by identity
    loaded,                    \* the document as it was loaded (before adapt_world)
    add_floor,                 \* adapt_world's add_floor
    add_reference_position,    \* adapt_world's add_reference_position
    remove_frc_range,          \* adapt_world's remove_frc_range
    written                    \* what save wrote

rvars == <<rpc, reward_params, dt, include_reward_breakdown, state, action, next_state, out>>
mvars == <<mpc, tree, loaded, add_floor, add_reference_position, remove_frc_range, written>>
vars == <<rvars, mvars>>

(***************************************************************************)
(* Bounds.                                                                 *)
(***************************************************************************)
MaxZ == 3
MaxNodes == 2

Weights == {-1, 2}
TimeSteps == {1, 2}
XPositions == {0, 2}
Heights == 0..MaxZ
ZLimits == {1, 2}
ActionSpace == {<<0, 0>>, <<1, 0>>, <<-1, 1>>}

(***************************************************************************)
(* rewards.py                                                              *)
(***************************************************************************)
RewardKeys == {"rew_forward", "rew_healthy", "rew_ctrl_cost"}

\* The RewardDict values a key may carry: healthy_z_lower and healthy_z_upper
\* are NotRequired and only rew_healthy reads them.
RewardDict(key) ==
    IF key = "rew_healthy"
    THEN [weight : Weights, healthy_z_lower : ZLimits, healthy_z_upper : ZLimits]
    ELSE [weight : Weights]

\* An mjxState, as far as the reward functions read it.
mjxState == [subtree_com_1_0 : XPositions, q_2 : Heights]

RECURSIVE SumSquare(_)
SumSquare(a) ==
    IF a = <<>> THEN 0 ELSE a[1] * a[1] + SumSquare(Tail(a))

forward_reward_fn(s, a, ns, t, params) ==
    LET xpos == s.subtree_com_1_0
        next_xpos == ns.subtree_com_1_0
        velocity == (next_xpos - xpos) \div t
        forward_reward == params.weight * velocity
    IN  <<forward_reward, 1>>

\* jp.where(cond, x, y)
where(cond, x, y) == IF cond THEN x ELSE y

\* healthy_reward_fn with the lower bound excluded (<= for <): a fault the boundary detects
healthy_reward_fn_strict(s, a, ns, t, params) ==
    LET min_z == params.healthy_z_lower
        max_z == params.healthy_z_upper
        is_healthy1 == where(s.q_2 <= min_z, 0, 1)
        is_healthy == where(s.q_2 > max_z, 0, is_healthy1)
    IN  <<params.weight * is_healthy, is_healthy>>

healthy_reward_fn(s, a, ns, t, params) ==
    LET min_z == params.healthy_z_lower
        max_z == params.healthy_z_upper
        is_healthy1 == where(s.q_2 < min_z, 0, 1)
        is_healthy == where(s.q_2 > max_z, 0, is_healthy1)
        healthy_reward == params.weight * is_healthy
    IN  <<healthy_reward, is_healthy>>

ctrl_cost_reward_fn(s, a, ns, t, params) ==
    LET ctrl_cost == (-params.weight) * SumSquare(a)
    IN  <<ctrl_cost, 1>>

\* reward_functions[key](state, action, next_state, dt, params)
reward_functions(key, s, a, ns, t, params) ==
    CASE key = "rew_forward" -> forward_reward_fn(s, a, ns, t, params)
      [] key = "rew_healthy" -> healthy_reward_fn(s, a, ns, t, params)
      [] key = "rew_ctrl_cost" -> ctrl_cost_reward_fn(s, a, ns, t, params)

\* LoopBody with is_healthy = h for is_healthy *= h
LoopBodyAssign(acc, item, breakdown, s, a, ns, t) ==
    LET rh == reward_functions(item.key, s, a, ns, t, item.params)
    IN  [reward |-> acc.reward + rh[1],
         is_healthy |-> rh[2],
         rewards |-> IF breakdown
                     THEN (item.key :> rh[1]) @@ acc.rewards
                     ELSE acc.rewards]

\* LoopBody with reward = r for reward += r
LoopBodyOverwrite(acc, item, breakdown, s, a, ns, t) ==
    LET rh == reward_functions(item.key, s, a, ns, t, item.params)
    IN  [reward |-> rh[1],
         is_healthy |-> acc.is_healthy * rh[2],
         rewards |-> IF breakdown
                     THEN (item.key :> rh[1]) @@ acc.rewards
                     ELSE acc.rewards]

\* LoopBody with reward += r moved under the include_reward_breakdown test
LoopBodyGated(acc, item, breakdown, s, a, ns, t) ==
    LET rh == reward_functions(item.key, s, a, ns, t, item.params)
    IN  IF breakdown
        THEN [reward |-> acc.reward + rh[1],
              is_healthy |-> acc.is_healthy * rh[2],
              rewards |-> (item.key :> rh[1]) @@ acc.rewards]
        ELSE [reward |-> acc.reward,
              is_healthy |-> acc.is_healthy * rh[2],
              rewards |-> acc.rewards]

\* One iteration of reward_fn's loop over reward_params.items().
LoopBody(acc, item, breakdown, s, a, ns, t) ==
    LET rh == reward_functions(item.key, s, a, ns, t, item.params)
    IN  [reward |-> acc.reward + rh[1],
         is_healthy |-> acc.is_healthy * rh[2],
         rewards |-> IF breakdown
                     THEN (item.key :> rh[1]) @@ acc.rewards
                     ELSE acc.rewards]

RECURSIVE Loop(_, _, _, _, _, _, _)
Loop(acc, items, breakdown, s, a, ns, t) ==
    IF items = <<>>
    THEN acc
    ELSE Loop(LoopBody(acc, Head(items), breakdown, s, a, ns, t),
              Tail(items), breakdown, s, a, ns, t)

EmptyDict == [k \in {} |-> 0]

\* The function get_reward_fn(params, t, breakdown) returns, applied to (s, a, ns).
reward_fn(params, t, breakdown, s, a, ns) ==
    Loop([reward |-> 0, is_healthy |-> 1, rewards |-> EmptyDict],
         params, breakdown, s, a, ns, t)

\* The ordered dictionaries over the registered keys: the keys of a dict are distinct.
KeyOrders ==
    {q \in UNION {[1..n -> RewardKeys] : n \in 0..Cardinality(RewardKeys)} :
        \A i, j \in DOMAIN q : i # j => q[i] # q[j]}

RewardParamsOf(q) ==
    {p \in [DOMAIN q -> UNION {[key : {k}, params : RewardDict(k)] : k \in RewardKeys}] :
        \A i \in DOMAIN q : p[i].key = q[i]}

RewardParams == UNION {RewardParamsOf(q) : q \in KeyOrders}

Keys(params) == {params[i].key : i \in DOMAIN params}

NoOut == [kind |-> "none"]

RInit ==
    /\ rpc = "start"
    /\ reward_params = <<>>
    /\ dt = 1
    /\ include_reward_breakdown = FALSE
    /\ state = [subtree_com_1_0 |-> 0, q_2 |-> 0]
    /\ next_state = [subtree_com_1_0 |-> 0, q_2 |-> 0]
    /\ action = <<0, 0>>
    /\ out = NoOut

\* get_reward_fn(reward_params, dt, include_reward_breakdown): the closure keeps them.
GetRewardFn ==
    /\ rpc = "start"
    /\ \E p \in RewardParams, t \in TimeSteps, b \in BOOLEAN :
        /\ reward_params' = p
        /\ dt' = t
        /\ include_reward_breakdown' = b
    /\ rpc' = "built"
    /\ UNCHANGED <<state, action, next_state, out, mvars>>

\* reward_fn(state, action, next_state), the combined reward function.
RewardFn ==
    /\ rpc = "built"
    /\ \E s \in mjxState, a \in ActionSpace, ns \in mjxState :
        /\ state' = s
        /\ action' = a
        /\ next_state' = ns
        /\ out' = [kind |-> "reward_fn"] @@
                  reward_fn(reward_params, dt, include_reward_breakdown, s, a, ns)
    /\ rpc' = "called"
    /\ UNCHANGED <<reward_params, dt, include_reward_breakdown, mvars>>

\* A direct call of one registered component with its entry of reward_params.
ComponentFn ==
    /\ rpc = "built"
    /\ \E i \in DOMAIN reward_params, s \in mjxState, a \in ActionSpace, ns \in mjxState :
        LET rh == reward_functions(reward_params[i].key, s, a, ns, dt, reward_params[i].params)
        IN  /\ state' = s
            /\ action' = a
            /\ next_state' = ns
            /\ out' = [kind |-> "component", key |-> reward_params[i].key,
                       params |-> reward_params[i].params,
                       reward |-> rh[1], is_healthy |-> rh[2]]
    /\ rpc' = "called"
    /\ UNCHANGED <<reward_params, dt, include_reward_breakdown, mvars>>

(***************************************************************************)
(* process_mjcf.py: the ElementTree document.  An element is known by its  *)
(* identity, its index in tree; children holds identities.                 *)
(***************************************************************************)
None == <<>>
Str(s) == <<s>>
At(k, v) == k :> <<v>>
NoAttrib == [k \in {} |-> None]
Element(tag, attrib) == [tag |-> tag, attrib |-> attrib, children |-> <<>>]

\* Python's truth value of an Optional[str]: None and "" are false.
Truthy(v) == v # None /\ v # Str("")

\* list.insert(index, x) for index >= 0
InsertAt(s, index, x) ==
    LET k == IF index > Len(s) THEN Len(s) ELSE index
    IN  SubSeq(s, 1, k) \o <<x>> \o SubSeq(s, k + 1, Len(s))

\* list.index(x), counted from 1
IndexOf(s, x) == CHOOSE i \in 1..Len(s) : s[i] = x /\ \A j \in 1..(i - 1) : s[j] # x

\* list.remove(x): the first occurrence
RemoveFirst(s, x) ==
    IF \E i \in 1..Len(s) : s[i] = x
    THEN SubSeq(s, 1, IndexOf(s, x) - 1) \o SubSeq(s, IndexOf(s, x) + 1, Len(s))
    ELSE s

\* Element.get(key)
get(t, e, key) == IF key \in DOMAIN t[e].attrib THEN t[e].attrib[key] ELSE None

\* Element.set(key, value)
set(t, e, key, value) == [t EXCEPT ![e].attrib = (key :> value) @@ @]

\* Element.attrib.pop(key)
pop(t, e, key) ==
    [t EXCEPT ![e].attrib = [k \in (DOMAIN @) \ {key} |-> @[k]]]

\* parent.append(child), parent.insert(index, child), parent.remove(child)
append(t, parent, child) == [t EXCEPT ![parent].children = Append(@, child)]
insert(t, parent, index, child) == [t EXCEPT ![parent].children = InsertAt(@, index, child)]
remove(t, parent, child) == [t EXCEPT ![parent].children = RemoveFirst(@, child)]

\* A new element made a child of parent, and a list of them (extend).
SubElement(t, parent, e) == append(Append(t, e), parent, Len(t) + 1)

\* parent.extend(es) with new elements es: they get the next identities, in order
extend(t, parent, es) ==
    [(t \o es) EXCEPT ![parent].children = @ \o [i \in 1..Len(es) |-> Len(t) + i]]

\* parent.findall(tag): the direct children with that tag, in order
findall(t, parent, tag) == SelectSeq(t[parent].children, LAMBDA c : t[c].tag = tag)

\* parent.find(tag): the first of them, 0 for None
find(t, parent, tag) ==
    IF findall(t, parent, tag) = <<>> THEN 0 ELSE findall(t, parent, tag)[1]

\* The descendants of an element in document order, and e.findall(".//tag").
RECURSIVE iter(_, _)
RECURSIVE iterAll(_, _)
iter(t, e) == <<e>> \o iterAll(t, t[e].children)
iterAll(t, cs) ==
    CASE Len(cs) = 0 -> <<>>
      [] Len(cs) = 1 -> iter(t, cs[1])
      [] OTHER -> iterAll(t, SubSeq(cs, 1, Len(cs) \div 2))
                    \o iterAll(t, SubSeq(cs, Len(cs) \div 2 + 1, Len(cs)))

findallDeep(t, e, tag) == SelectSeq(iterAll(t, t[e].children), LAMBDA c : t[c].tag = tag)

(***************************************************************************)
(* process_mjcf.py: the tables.                                            *)
(***************************************************************************)
DEFAULT_STANDING ==
    [j \in {"torso roll"} |-> "2.58"] @@
    [j \in {"left shoulder pitch"} |-> "-0.534"] @@
    [j \in {"left shoulder yaw"} |-> "2.54"] @@
    [j \in {"left shoulder roll", "right shoulder roll"} |-> "-0.0314"] @@
    [j \in {"right shoulder pitch"} |-> "2.45"] @@
    [j \in {"right shoulder yaw"} |-> "3.77"] @@
    [j \in {"left elbow pitch"} |-> "2.35"] @@
    [j \in {"right elbow pitch"} |-> "2.65"] @@
    [j \in {"left hand left finger", "left hand right finger",
            "right hand left finger", "right hand right finger"} |-> "0.0"] @@
    [j \in {"left wrist roll", "right wrist pitch"} |-> "1.79"] @@
    [j \in {"left wrist pitch"} |-> "1.35"] @@
    [j \in {"left wrist yaw"} |-> "1.07"] @@
    [j \in {"right wrist roll"} |-> "-2.13"] @@
    [j \in {"right wrist yaw"} |-> "-0.251"] @@
    [j \in {"left hip pitch"} |-> "-1.6"] @@
    [j \in {"left hip roll"} |-> "1.41"] @@
    [j \in {"left hip yaw"} |-> "-2.12"] @@
    [j \in {"left knee pitch"} |-> "2.01"] @@
    [j \in {"left ankle pitch"} |-> "0.238"] @@
    [j \in {"left ankle roll"} |-> "1.85"] @@
    [j \in {"right hip pitch"} |-> "1.76"] @@
    [j \in {"right hip roll"} |-> "-1.54"] @@
    [j \in {"right hip yaw"} |-> "0.967"] @@
    [j \in {"right knee pitch"} |-> "2.07"] @@
    [j \in {"right ankle pitch"} |-> "0.377"] @@
    [j \in {"right ankle roll"} |-> "1.92"]

\* DEFAULT_LIMITS.keys(), in the order of the dictionary
DEFAULT_LIMITS ==
    <<"torso roll", "left shoulder pitch", "left shoulder yaw", "left shoulder roll",
      "right shoulder pitch", "right shoulder yaw", "right shoulder roll",
      "left wrist roll", "left wrist pitch", "left wrist yaw",
      "right wrist roll", "right wrist pitch", "right wrist yaw",
      "left hip pitch", "left hip roll", "left hip yaw", "left knee pitch",
      "left ankle pitch", "left ankle roll",
      "right hip pitch", "right hip roll", "right hip yaw", "right knee pitch",
      "right ankle pitch", "right ankle roll",
      "left elbow pitch", "right elbow pitch",
      "left hand left finger", "left hand right finger",
      "right hand left finger", "right hand right finger">>

(***************************************************************************)
(* Sim2SimRobot.adapt_world, step by step.  root is the identity of        *)
(* self.tree.getroot().                                                    *)
(***************************************************************************)
root == 1

\* if add_floor: asset.append(texture), asset.append(material), asset.append(material)
AddFloorAssets(t) ==
    LET asset == find(t, root, "asset")
    IN  extend(t, asset,
          <<Element("texture",
                At("name", "texplane") @@ At("type", "2d") @@ At("builtin", "checker") @@
                At("rgb1", ".0 .0 .0") @@ At("rgb2", ".8 .8 .8") @@
                At("width", "100") @@ At("height", "108")),
            Element("material",
                At("name", "matplane") @@ At("reflectance", "0.") @@
                At("texture", "texplane") @@ At("texrepeat", "1 1") @@
                At("texuniform", "true")),
            Element("material", At("name", "visualgeom") @@ At("rgba", "0.5 0.9 0.2 1"))>>)

\* compiler = self.compiler.to_xml(root.find("compiler")): the attributes are set on
\* the document's compiler element; with none, the element made is not in the document.
AdaptCompiler(t) ==
    LET compiler == find(t, root, "compiler")
    IN  IF compiler = 0
        THEN t
        ELSE set(set(set(t, compiler, "angle", Str("radian")),
                     compiler, "meshdir", Str("meshes")),
                 compiler, "autolimits", Str("true"))

\* new_root_body with its four joints and the imu site.  Its identity is Len(t) + 1.
NewRootBody(t) ==
    LET new_root_body == Len(t) + 1
        t1 == Append(t, Element("body",
                  At("name", "root") @@ At("pos", "0 0 1.0") @@ At("quat", "1 0 0 0")))
        t2 == extend(t1, new_root_body,
                <<Element("joint", At("name", "root_x") @@ At("type", "slide") @@
                      At("axis", "1 0 0") @@ At("limited", "false")),
                  Element("joint", At("name", "root_y") @@ At("type", "slide") @@
                      At("axis", "0 1 0") @@ At("limited", "false")),
                  Element("joint", At("name", "root_z") @@ At("type", "slide") @@
                      At("axis", "0 0 1") @@ At("limited", "false")),
                  Element("joint", At("name", "root_ball") @@ At("type", "ball") @@
                      At("limited", "false"))>>)
    IN  SubElement(t2, new_root_body,
            Element("site", At("name", "imu") @@ At("size", "0.01") @@ At("pos", "0 0 0")))

Light1 ==
    Element("light", At("directional", "true") @@ At("diffuse", "0.4 0.4 0.4") @@
        At("specular", "0.1 0.1 0.1") @@ At("pos", "0 0 5.0") @@ At("dir", "0 0 -1") @@
        At("castshadow", "false"))

Light2 ==
    Element("light", At("directional", "true") @@ At("diffuse", "0.6 0.6 0.6") @@
        At("specular", "0.2 0.2 0.2") @@ At("pos", "0 0 4") @@ At("dir", "0 0 -1"))

Ground ==
    Element("geom", At("name", "ground") @@ At("type", "plane") @@ At("size", "0 0 1") @@
        At("pos", "0.001 0 0") @@ At("quat", "1 0 0 0") @@ At("material", "matplane") @@
        At("condim", "3") @@ At("conaffinity", "1") @@ At("contype", "0"))

\* worldbody.append(new_root_body); worldbody.insert(0, light) twice;
\* if add_floor: worldbody.insert(0, ground)
Attach(t, worldbody, new_root_body, floor) ==
    LET t1 == append(t, worldbody, new_root_body)
        t2 == insert(Append(t1, Light1), worldbody, 0, Len(t1) + 1)
        t3 == insert(Append(t2, Light2), worldbody, 0, Len(t2) + 1)
    IN  IF floor THEN insert(Append(t3, Ground), worldbody, 0, Len(t3) + 1) ELSE t3

\* for joint in DEFAULT_LIMITS.keys(): if joint in DEFAULT_STANDING.keys(): ...
\* the joints that get a motor and three sensors, in order
MotorJoints == SelectSeq(DEFAULT_LIMITS, LAMBDA joint : joint \in DOMAIN DEFAULT_STANDING)

Motor(joint) ==
    Element("motor", At("name", joint) @@ At("joint", joint) @@ At("gear", "1") @@
        At("ctrlrange", "-200 200") @@ At("ctrllimited", "true"))

\* Actuatorpos with the sensor's own name as its actuator
ActuatorposSelf(joint) ==
    Element("actuatorpos", At("name", joint \o "_p") @@ At("actuator", joint \o "_p") @@
        At("user", "13"))

Actuatorpos(joint) ==
    Element("actuatorpos", At("name", joint \o "_p") @@ At("actuator", joint) @@
        At("user", "13"))

Actuatorvel(joint) ==
    Element("actuatorvel", At("name", joint \o "_v") @@ At("actuator", joint) @@
        At("user", "13"))

Actuatorfrc(joint) ==
    Element("actuatorfrc", At("name", joint \o "_f") @@ At("actuator", joint) @@
        At("user", "13") @@ At("noise", "0.001"))

\* root.append(mjcf.Actuator(motors).to_xml()); root.append(mjcf.Sensor(...).to_xml());
\* root.find("sensor").extend([framequat, gyro])
AddMotorsAndSensors(t) ==
    LET actuator == Len(t) + 1
        t1 == extend(SubElement(t, root, Element("actuator", NoAttrib)),
                     actuator, [i \in DOMAIN MotorJoints |-> Motor(MotorJoints[i])])
        sensor == Len(t1) + 1
        t2 == extend(SubElement(t1, root, Element("sensor", NoAttrib)), sensor,
                     [i \in DOMAIN MotorJoints |-> Actuatorpos(MotorJoints[i])]
                       \o [i \in DOMAIN MotorJoints |-> Actuatorvel(MotorJoints[i])]
                       \o [i \in DOMAIN MotorJoints |-> Actuatorfrc(MotorJoints[i])])
        sensors == find(t2, root, "sensor")
    IN  extend(t2, sensors,
          <<Element("framequat", At("name", "orientation") @@ At("objtype", "site") @@
                At("noise", "0.001") @@ At("objname", "imu")),
            Element("gyro", At("name", "angular-velocity") @@ At("site", "imu") @@
                At("noise", "0.005") @@ At("cutoff", "34.9"))>>)

\* root.insert(1, mjcf.Option(...).to_xml())
AddOption(t) ==
    LET option == Len(t) + 1
        t1 == insert(Append(t, Element("option",
                  At("timestep", "0.001") @@ At("viscosity", "1e-06") @@
                  At("iterations", "50") @@ At("solver", "PGS") @@
                  At("gravity", "0 0 -9.81"))), root, 1, option)
    IN  SubElement(t1, option, Element("flag", At("frictionloss", "enable")))

\* visual_geom = <default class="visualgeom"><geom .../></default> and
\* root.insert(1, mjcf.Default(joint, motor, equality, geom, visual_geom).to_xml())
AddDefault(t) ==
    LET default == Len(t) + 1
        t1 == insert(Append(t, Element("default", NoAttrib)), root, 1, default)
        t2 == extend(t1, default,
                <<Element("joint", At("armature", "0.01") @@ At("damping", "0.1") @@
                      At("limited", "true") @@ At("frictionloss", "0.0")),
                  Element("geom", At("solref", "0.001 2") @@ At("friction", "0.9 0.2 0.2") @@
                      At("condim", "3") @@ At("contype", "1") @@ At("conaffinity", "0")),
                  Element("motor", At("ctrllimited", "true")),
                  Element("equality", At("solref", "0.001 2"))>>)
        visual_geom == Len(t2) + 1
        t3 == SubElement(t2, default, Element("default", At("class", "visualgeom")))
    IN  SubElement(t3, visual_geom,
            Element("geom", At("material", "visualgeom") @@ At("condim", "3") @@
                At("contype", "0") @@ At("conaffinity", "0")))

\* add_reference_position(root): every joint of the document named in DEFAULT_STANDING
\* gets ref = str(DEFAULT_STANDING[name])
RECURSIVE SetRefs(_, _)
SetRefs(t, joints) ==
    IF joints = <<>>
    THEN t
    ELSE LET joint == joints[1]
             name == get(t, joint, "name")
         IN  SetRefs(IF name # None /\ name[1] \in DOMAIN DEFAULT_STANDING
                     THEN set(t, joint, "ref", Str(DEFAULT_STANDING[name[1]]))
                     ELSE t,
                     Tail(joints))

\* Sim2SimRobot.add_reference_position (the name is adapt_world's flag here)
AddReferencePosition(t) == SetRefs(t, findallDeep(t, root, "joint"))

\* MoveItems without worldbody.remove(item)
RECURSIVE MoveItemsCopy(_, _, _, _)
MoveItemsCopy(t, worldbody, new_root_body, items) ==
    IF items = <<>>
    THEN t
    ELSE MoveItemsCopy(append(t, new_root_body, items[1]),
                       worldbody, new_root_body, Tail(items))

\* for item in items_to_move: worldbody.remove(item); new_root_body.append(item)
RECURSIVE MoveItems(_, _, _, _)
MoveItems(t, worldbody, new_root_body, items) ==
    IF items = <<>>
    THEN t
    ELSE MoveItems(append(remove(t, worldbody, items[1]), new_root_body, items[1]),
                   worldbody, new_root_body, Tail(items))

\* NewGeom without contype and conaffinity
NewGeomNoContype(t, geom) ==
    LET a1 == ("type" :> get(t, geom, "type")) @@ ("rgba" :> get(t, geom, "rgba")) @@
              ("mesh" :> get(t, geom, "mesh"))
        a2 == IF Truthy(get(t, geom, "pos")) THEN ("pos" :> get(t, geom, "pos")) @@ a1 ELSE a1
        a3 == IF Truthy(get(t, geom, "quat")) THEN ("quat" :> get(t, geom, "quat")) @@ a2 ELSE a2
    IN  Element("geom", At("group", "1") @@ At("density", "0") @@ a3)

\* The geom inserted for an original geom (lines 390-401).
NewGeom(t, geom) ==
    LET a1 == ("type" :> get(t, geom, "type")) @@ ("rgba" :> get(t, geom, "rgba")) @@
              ("mesh" :> get(t, geom, "mesh"))
        a2 == IF Truthy(get(t, geom, "pos")) THEN ("pos" :> get(t, geom, "pos")) @@ a1 ELSE a1
        a3 == IF Truthy(get(t, geom, "quat")) THEN ("quat" :> get(t, geom, "quat")) @@ a2 ELSE a2
    IN  Element("geom", At("contype", "0") @@ At("conaffinity", "0") @@
                        At("group", "1") @@ At("density", "0") @@ a3)

\* VisualGeom with body.append(new_geom) for body.insert(index + 1, new_geom)
VisualGeomAtEnd(t, body, geom) ==
    LET t1 == set(t, geom, "class", Str("visualgeom"))
        new_geom == Len(t1) + 1
        t2 == Append(t1, NewGeom(t1, geom))
    IN  append(t2, body, new_geom)

\* The body of the loop over original_geoms (lines 388-405).
VisualGeom(t, body, geom) ==
    LET t1 == set(t, geom, "class", Str("visualgeom"))
        new_geom == Len(t1) + 1
        t2 == Append(t1, NewGeom(t1, geom))
        index == IndexOf(t2[body].children, geom) - 1
    IN  insert(t2, body, index + 1, new_geom)

RECURSIVE VisualGeoms(_, _, _)
VisualGeoms(t, body, geoms) ==
    IF geoms = <<>>
    THEN t
    ELSE VisualGeoms(VisualGeom(t, body, geoms[1]), body, Tail(geoms))

\* for body in root.findall(".//body"): original_geoms = list(body.findall("geom")); ...
RECURSIVE VisualBodies(_, _)
VisualBodies(t, bodies) ==
    IF bodies = <<>>
    THEN t
    ELSE VisualBodies(VisualGeoms(t, bodies[1], findall(t, bodies[1], "geom")), Tail(bodies))

VisualGeomPass(t) == VisualBodies(t, findallDeep(t, root, "body"))

\* if remove_frc_range: every joint that is a direct child of a body loses actuatorfrcrange
RECURSIVE PopFrcRange(_, _)
PopFrcRange(t, joints) ==
    IF joints = <<>>
    THEN t
    ELSE PopFrcRange(IF "actuatorfrcrange" \in DOMAIN t[joints[1]].attrib
                     THEN pop(t, joints[1], "actuatorfrcrange")
                     ELSE t,
                     Tail(joints))

RECURSIVE RemoveFrcRange(_, _)
RemoveFrcRange(t, bodies) ==
    IF bodies = <<>>
    THEN t
    ELSE RemoveFrcRange(PopFrcRange(t, findall(t, bodies[1], "joint")), Tail(bodies))

\* Sim2SimRobot.adapt_world(add_floor, add_reference_position, remove_frc_range)
adapt_world(t0, floor, refpos, rmfrc) ==
    LET t1 == IF floor THEN AddFloorAssets(t0) ELSE t0
        t2 == AdaptCompiler(t1)
        worldbody == find(t2, root, "worldbody")
        items_to_move == t2[worldbody].children
        new_root_body == Len(t2) + 1
        t3 == NewRootBody(t2)
        t4 == Attach(t3, worldbody, new_root_body, floor)
        t5 == AddMotorsAndSensors(t4)
        t6 == AddOption(t5)
        t7 == AddDefault(t6)
        t8 == IF refpos THEN AddReferencePosition(t7) ELSE t7
        t9 == MoveItems(t8, worldbody, new_root_body, items_to_move)
        t10 == VisualGeomPass(t9)
    IN  IF rmfrc THEN RemoveFrcRange(t10, findallDeep(t10, root, "body")) ELSE t10

(***************************************************************************)
(* Sim2SimRobot.save: ET.tostring, then _pretty_print_xml.                 *)
(***************************************************************************)
\* ET.tostring fails with TypeError on an attribute value that is not a string.
Serializable(t) ==
    LET elements == iter(t, root)
    IN  \A i \in DOMAIN elements :
            \A k \in DOMAIN t[elements[i]].attrib : t[elements[i]].attrib[k] # None

\* ET.tostring(root): the start and end tags in document order
RECURSIVE tostring(_, _)
RECURSIVE tostringAll(_, _)
tostring(t, e) ==
    <<[kind |-> "start", tag |-> t[e].tag,
       attrib |-> [k \in DOMAIN t[e].attrib |-> t[e].attrib[k][1]]]>>
      \o tostringAll(t, t[e].children) \o <<[kind |-> "end", tag |-> t[e].tag]>>
tostringAll(t, cs) ==
    CASE Len(cs) = 0 -> <<>>
      [] Len(cs) = 1 -> tostring(t, cs[1])
      [] OTHER -> tostringAll(t, SubSeq(cs, 1, Len(cs) \div 2))
                    \o tostringAll(t, SubSeq(cs, Len(cs) \div 2 + 1, Len(cs)))

\* _pretty_print_xml: parse the tags again and write one element per line, indented
\* by its depth.
\* the depth gained over a run of tags
Net(tokens) ==
    Len(SelectSeq(tokens, LAMBDA k : k.kind = "start"))
      - Len(SelectSeq(tokens, LAMBDA k : k.kind = "end"))

RECURSIVE PrettyLines(_, _)
PrettyLines(tokens, depth) ==
    CASE Len(tokens) = 0 -> <<>>
      [] Len(tokens) = 1 ->
            IF tokens[1].kind = "start"
            THEN <<[indent |-> depth, tag |-> tokens[1].tag, attrib |-> tokens[1].attrib]>>
            ELSE <<>>
      [] OTHER ->
            LET first == SubSeq(tokens, 1, Len(tokens) \div 2)
                rest == SubSeq(tokens, Len(tokens) \div 2 + 1, Len(tokens))
            IN  PrettyLines(first, depth) \o PrettyLines(rest, depth + Net(first))

_pretty_print_xml(xml_string) == PrettyLines(xml_string, 0)

(***************************************************************************)
(* The documents the script is run on: <mujoco> with a compiler, an asset  *)
(* and a worldbody, and up to MaxNodes bodies, joints and geoms below the  *)
(* worldbody.  The elements are numbered parents first, brothers in order. *)
(***************************************************************************)
BodyProfile == Element("body", At("name", "link"))
JointProfile == Element("joint", At("name", "torso roll") @@ At("actuatorfrcrange", "-1 1"))

\* a mesh geom with every attribute the script copies
GeomMesh ==
    Element("geom", At("type", "mesh") @@ At("rgba", "1 1 1 1") @@ At("mesh", "link") @@
        At("pos", "0 0 0.1") @@ At("quat", "1 0 0 0"))
\* the collision capsule of the script's docstring: no mesh, no pos, no quat
GeomCapsule ==
    Element("geom", At("class", "collision") @@ At("type", "capsule") @@
        At("fromto", "0 0.005 -.17 -.02 0.005 -.01") @@ At("size", "0.05") @@
        At("rgba", "0.0 0.0 0.0 1"))
\* a mesh geom whose pos is the empty string
GeomEmptyPos ==
    Element("geom", At("type", "mesh") @@ At("rgba", "1 1 1 1") @@ At("mesh", "link") @@
        At("pos", "") @@ At("quat", "1 0 0 0"))
\* a mesh geom with contype and conaffinity of its own
GeomColliding ==
    Element("geom", At("type", "mesh") @@ At("rgba", "1 1 1 1") @@ At("mesh", "link") @@
        At("contype", "1") @@ At("conaffinity", "1"))

NodeProfiles == {BodyProfile, JointProfile, GeomMesh, GeomCapsule, GeomEmptyPos, GeomColliding}

BaseDocument ==
    <<[tag |-> "mujoco", attrib |-> At("model", "robot"), children |-> <<2, 3, 4>>],
      Element("compiler", At("angle", "radian")),
      Element("asset", NoAttrib),
      Element("worldbody", NoAttrib)>>

WorldbodyId == Len(BaseDocument)

\* par[i] is the parent of node Len(BaseDocument) + i
ValidParents(prof, par) ==
    \A i \in DOMAIN prof :
        /\ par[i] < Len(BaseDocument) + i
        /\ par[i] = WorldbodyId \/ prof[par[i] - Len(BaseDocument)].tag = "body"
        /\ prof[i].tag = "joint" => par[i] # WorldbodyId
        /\ \A j \in DOMAIN prof : j < i => par[j] <= par[i]

Document(prof, par) ==
    LET n == Len(BaseDocument)
        ChildrenOf(p) ==
            SelectSeq([i \in DOMAIN prof |-> n + i], LAMBDA c : par[c - n] = p)
        doc == BaseDocument \o prof
    IN  [e \in DOMAIN doc |->
            IF e >= WorldbodyId
            THEN [doc[e] EXCEPT !.children = ChildrenOf(e)]
            ELSE doc[e]]

Documents ==
    UNION {
        {Document(prof, par) :
            <<prof, par>> \in
              {pp \in [1..n -> NodeProfiles] \X [1..n -> WorldbodyId..(WorldbodyId + n)] :
                  ValidParents(pp[1], pp[2])}}
        : n \in 0..MaxNodes}

MInit ==
    /\ mpc = "loaded"
    /\ loaded \in Documents
    /\ tree = loaded
    /\ add_floor = FALSE
    /\ add_reference_position = FALSE
    /\ remove_frc_range = FALSE
    /\ written = <<>>

\* robot.adapt_world(add_floor, add_reference_position, remove_frc_range)
AdaptWorld ==
    /\ mpc = "loaded"
    /\ \E floor, refpos, rmfrc \in BOOLEAN :
        /\ add_floor' = floor
        /\ add_reference_position' = refpos
        /\ remove_frc_range' = rmfrc
        /\ tree' = adapt_world(tree, floor, refpos, rmfrc)
    /\ mpc' = "adapted"
    /\ UNCHANGED <<loaded, written, rvars>>

\* robot.save(path): ET.tostring raises TypeError before anything is written
Save ==
    /\ mpc = "adapted"
    /\ IF Serializable(tree)
       THEN /\ written' = _pretty_print_xml(tostring(tree, root))
            /\ mpc' = "saved"
       ELSE /\ written' = written
            /\ mpc' = "TypeError"
    /\ UNCHANGED <<tree, loaded, add_floor, add_reference_position, remove_frc_range, rvars>>

RIdle ==
    /\ rpc = "idle"
    /\ reward_params = <<>>
    /\ dt = 1
    /\ include_reward_breakdown = FALSE
    /\ state = [subtree_com_1_0 |-> 0, q_2 |-> 0]
    /\ next_state = [subtree_com_1_0 |-> 0, q_2 |-> 0]
    /\ action = <<0, 0>>
    /\ out = NoOut

MIdle ==
    /\ mpc = "idle"
    /\ tree = <<>>
    /\ loaded = <<>>
    /\ add_floor = FALSE
    /\ add_reference_position = FALSE
    /\ remove_frc_range = FALSE
    /\ written = <<>>

RewardInit == RInit /\ MIdle
RewardNext == GetRewardFn \/ RewardFn \/ ComponentFn
SpecReward == RewardInit /\ [][RewardNext]_vars

MjcfInit == MInit /\ RIdle
MjcfNext == AdaptWorld \/ Save
SpecMjcf == MjcfInit /\ [][MjcfNext]_vars

(***************************************************************************)
(* The claims about rewards.py, checked under SpecReward.                  *)
(***************************************************************************)
\* reward_params[key], for a key of the dictionary
ParamsOf(key) ==
    reward_params[CHOOSE i \in DOMAIN reward_params : reward_params[i].key = key].params

\* What the registered component of a key returns on the inputs of the last call.
ForwardOut == forward_reward_fn(state, action, next_state, dt, ParamsOf("rew_forward"))
HealthyOut == healthy_reward_fn(state, action, next_state, dt, ParamsOf("rew_healthy"))
CtrlCostOut == ctrl_cost_reward_fn(state, action, next_state, dt, ParamsOf("rew_ctrl_cost"))

ComponentOut(key) ==
    CASE key = "rew_forward" -> ForwardOut
      [] key = "rew_healthy" -> HealthyOut
      [] key = "rew_ctrl_cost" -> CtrlCostOut

Listed(key) == key \in Keys(reward_params)

\* C1: the total reward returned by the combined reward function is the sum, over
\* exactly the keys of reward_params, of the reward of the registered component of
\* that key called with that key's params; an absent key contributes nothing and
\* an empty reward_params gives 0.
C1_TotalIsSumOverListedKeys ==
    out.kind = "reward_fn" =>
        /\ out.reward =
              (IF Listed("rew_forward") THEN ForwardOut[1] ELSE 0)
            + (IF Listed("rew_healthy") THEN HealthyOut[1] ELSE 0)
            + (IF Listed("rew_ctrl_cost") THEN CtrlCostOut[1] ELSE 0)
        /\ reward_params = <<>> => out.reward = 0

C1_Witness ==
    /\ out.kind = "reward_fn"
    /\ Keys(reward_params) = RewardKeys
    /\ ForwardOut[1] # 0 /\ HealthyOut[1] # 0 /\ CtrlCostOut[1] # 0
    /\ out.reward # 0

\* The same entries of reward_params in every order.
Reorderings(params) ==
    {q \in [DOMAIN params -> {params[i] : i \in DOMAIN params}] :
        \A i, j \in DOMAIN q : i # j => q[i] # q[j]}

\* C2: is_healthy is the product of the health flags of the listed components: it is
\* 0 or 1, it is 0 exactly when a listed component reports unhealthy, it does not
\* depend on the order of the keys, and it is 1 whenever rew_healthy is not listed.
C2_IsHealthyIsProductOfFlags ==
    out.kind = "reward_fn" =>
        /\ out.is_healthy \in {0, 1}
        /\ out.is_healthy = 0 <=> \E k \in Keys(reward_params) : ComponentOut(k)[2] = 0
        /\ \A q \in Reorderings(reward_params) :
              reward_fn(q, dt, include_reward_breakdown, state, action, next_state).is_healthy
                = out.is_healthy
        /\ ~Listed("rew_healthy") => out.is_healthy = 1

C2_Witness ==
    /\ out.kind = "reward_fn"
    /\ Len(reward_params) = 3
    /\ reward_params[1].key = "rew_healthy"
    /\ HealthyOut[2] = 0
    /\ out.is_healthy = 0

RECURSIVE SumDict(_)
SumDict(d) ==
    IF DOMAIN d = {}
    THEN 0
    ELSE LET k == CHOOSE x \in DOMAIN d : TRUE
         IN  d[k] + SumDict([x \in (DOMAIN d) \ {k} |-> d[x]])

\* C3: with include_reward_breakdown the breakdown has exactly the keys of
\* reward_params, each entry is the reward of that component and the entries sum to
\* the total; without it the breakdown is empty, and the total and is_healthy are
\* those the function built with the flag set returns.
C3_BreakdownMatchesTotal ==
    out.kind = "reward_fn" =>
        IF include_reward_breakdown
        THEN /\ DOMAIN out.rewards = Keys(reward_params)
             /\ \A k \in Keys(reward_params) : out.rewards[k] = ComponentOut(k)[1]
             /\ SumDict(out.rewards) = out.reward
        ELSE LET with == reward_fn(reward_params, dt, TRUE, state, action, next_state)
             IN  /\ out.rewards = EmptyDict
                 /\ out.reward = with.reward
                 /\ out.is_healthy = with.is_healthy

C3_Witness ==
    /\ out.kind = "reward_fn"
    /\ ~include_reward_breakdown
    /\ Keys(reward_params) = RewardKeys
    /\ out.rewards = EmptyDict
    /\ out.reward # 0
    /\ out.is_healthy = 0

Adapted == mpc # "loaded"

Worldbody == find(tree, root, "worldbody")
\* the children of worldbody when adapt_world was called
ItemsBefore == loaded[WorldbodyId].children
\* the elements adapt_world made
Added == (Len(loaded) + 1)..Len(tree)

Named(e, tag, name) == tree[e].tag = tag /\ get(tree, e, "name") = Str(name)
IsIn(x, s) == \E i \in DOMAIN s : s[i] = x

\* the body named "root" below worldbody
RootBody ==
    CHOOSE e \in Added : Named(e, "body", "root") /\ IsIn(e, tree[Worldbody].children)

\* C4: every former child of worldbody is a child of the new body "root", in the
\* same relative order and after root_x, root_y, root_z, root_ball and the site
\* imu; none is still a child of worldbody, whose children are exactly the ground
\* plane (with add_floor), two lights and the body "root".
C4_FloatingBase ==
    Adapted =>
        LET world == tree[Worldbody].children
            k == IF add_floor THEN 1 ELSE 0
            base == tree[RootBody].children
        IN  /\ Len(world) = k + 3
            /\ add_floor => Named(world[1], "geom", "ground")
            /\ tree[world[k + 1]].tag = "light" /\ tree[world[k + 2]].tag = "light"
            /\ Named(world[k + 3], "body", "root")
            /\ Len(base) >= 5
            /\ Named(base[1], "joint", "root_x") /\ Named(base[2], "joint", "root_y")
            /\ Named(base[3], "joint", "root_z") /\ Named(base[4], "joint", "root_ball")
            /\ Named(base[5], "site", "imu")
            /\ SelectSeq(SubSeq(base, 6, Len(base)), LAMBDA c : IsIn(c, ItemsBefore))
                  = ItemsBefore
            /\ \A i \in DOMAIN ItemsBefore : ~IsIn(ItemsBefore[i], world)

C4_Witness ==
    /\ mpc = "adapted"
    /\ add_floor
    /\ Len(ItemsBefore) = 2
    /\ tree[ItemsBefore[1]].tag = "geom" /\ tree[ItemsBefore[2]].tag = "body"

\* the motors below an actuator element, and the actuator sensors, that were added
MotorsAdded ==
    UNION {{tree[a].children[i] : i \in DOMAIN tree[a].children} \cap
              {e \in Added : tree[e].tag = "motor"}
           : a \in {e \in Added : tree[e].tag = "actuator"}}
SensorTags == {"actuatorpos", "actuatorvel", "actuatorfrc"}
SensorsAdded == {e \in Added : tree[e].tag \in SensorTags}
JointsOfBoth == {DEFAULT_LIMITS[i] : i \in DOMAIN DEFAULT_LIMITS} \cap DOMAIN DEFAULT_STANDING
Suffix(tag) ==
    CASE tag = "actuatorpos" -> "_p" [] tag = "actuatorvel" -> "_v" [] tag = "actuatorfrc" -> "_f"

\* C5: every joint name of both tables gets exactly one motor of that name and
\* exactly three actuator sensors <joint>_p, <joint>_v, <joint>_f on that motor;
\* nothing else gets a motor or an actuator sensor, every actuator sensor names an
\* added motor, and the two IMU sensors name the site imu of the body "root".
C5_MotorsAndSensorsCorrespond ==
    Adapted =>
        LET motors == MotorsAdded
            sensors == SensorsAdded
            motorNames == {get(tree, m, "name") : m \in motors}
        IN  /\ \A j \in JointsOfBoth :
                  /\ Cardinality({e \in motors : get(tree, e, "name") = Str(j)}) = 1
                  /\ \A tag \in SensorTags :
                        LET named == {e \in sensors : tree[e].tag = tag /\
                                         get(tree, e, "name") = Str(j \o Suffix(tag))}
                        IN  /\ Cardinality(named) = 1
                            /\ \A e \in named : get(tree, e, "actuator") = Str(j)
            /\ Cardinality(motors) = Cardinality(JointsOfBoth)
            /\ Cardinality(sensors) = 3 * Cardinality(JointsOfBoth)
            /\ \A e \in sensors : get(tree, e, "actuator") \in motorNames
            /\ \E e \in Added : Named(e, "framequat", "orientation")
                                  /\ get(tree, e, "objname") = Str("imu")
            /\ \E e \in Added : Named(e, "gyro", "angular-velocity")
                                  /\ get(tree, e, "site") = Str("imu")
            /\ \E e \in Added : Named(e, "site", "imu") /\ IsIn(e, tree[RootBody].children)

C5_Witness ==
    /\ mpc = "adapted"
    /\ Cardinality(MotorsAdded) = Len(DEFAULT_LIMITS)
    /\ Cardinality(SensorsAdded) = 3 * Len(DEFAULT_LIMITS)
    /\ \E e \in SensorsAdded : get(tree, e, "actuator") = Str("left elbow pitch")

\* the elements of the document, from its root
Elements == LET es == iter(tree, root) IN {es[i] : i \in DOMAIN es}

\* C6: adapt_world and then save produce well-formed XML: serialization succeeds and
\* every attribute of every element has a string value, also for body geoms without
\* type, rgba or mesh.
C6_SaveProducesXml ==
    /\ mpc # "TypeError"
    /\ Adapted => \A e \in Elements : \A k \in DOMAIN tree[e].attrib : tree[e].attrib[k] # None

\* The geoms of the loaded document.  When the visual-geom pass runs, each is a
\* direct child of a body: of its own body, or of "root" when it came from worldbody.
GeomsBefore == {g \in DOMAIN loaded : loaded[g].tag = "geom"}

ParentOf(t, e) == CHOOSE p \in DOMAIN t : IsIn(e, t[p].children)

\* the child that follows e below its parent, 0 when e is the last one
Following(e) ==
    LET cs == tree[ParentOf(tree, e)].children
        i == IndexOf(cs, e)
    IN  IF i < Len(cs) THEN cs[i + 1] ELSE 0

\* The value MuJoCo uses for a geom attribute: the geom's own, else that of the
\* default class the geom names, else that of the top-level default, else 1.
EffectiveAttr(g, k) ==
    LET class == get(tree, g, "class")
        classGeoms == {find(tree, d, "geom") :
                          d \in {e \in Elements : tree[e].tag = "default" /\ class # None
                                                    /\ get(tree, e, "class") = class}}
        ofClass == {x \in classGeoms \ {0} : k \in DOMAIN tree[x].attrib}
        main == find(tree, find(tree, root, "default"), "geom")
    IN  IF k \in DOMAIN tree[g].attrib THEN tree[g].attrib[k]
        ELSE IF ofClass # {} THEN tree[CHOOSE x \in ofClass : TRUE].attrib[k]
        ELSE IF main # 0 /\ k \in DOMAIN tree[main].attrib THEN tree[main].attrib[k]
        ELSE Str("1")

VisualOnly(g) ==
    EffectiveAttr(g, "contype") = Str("0") /\ EffectiveAttr(g, "conaffinity") = Str("0")

\* the geoms that were direct children of a body element of the loaded document
GeomsOfBodiesBefore == {g \in GeomsBefore : loaded[ParentOf(loaded, g)].tag = "body"}

\* C7 as claimed: of every geom that was a direct child of a body and the geom
\* inserted for it, exactly one is visual-only and the other takes part in collision.
C7_ExactlyOneOfPairCollides ==
    Adapted =>
        \A g \in GeomsOfBodiesBefore :
            Following(g) # 0 /\ (VisualOnly(g) <=> ~VisualOnly(Following(g)))

\* C7 as amended, for every geom the pass meets (those of worldbody too, which
\* are below "root" by then): the inserted geom is always visual-only (contype 0, conaffinity 0);
\* the original geom is put in class visualgeom and is visual-only too, unless it
\* carries a non-zero contype or conaffinity of its own.
C7_PairVisualUnlessOwnContact ==
    Adapted =>
        \A g \in GeomsBefore :
            LET n == Following(g)
            IN  /\ n \in Added /\ tree[n].tag = "geom"
                /\ VisualOnly(n)
                /\ get(tree, g, "class") = Str("visualgeom")
                /\ VisualOnly(g) <=>
                      /\ get(loaded, g, "contype") \in {None, Str("0")}
                      /\ get(loaded, g, "conaffinity") \in {None, Str("0")}

C7_Witness ==
    /\ mpc = "adapted"
    /\ \E g \in GeomsBefore :
          /\ loaded[ParentOf(loaded, g)].tag = "body"
          /\ get(loaded, g, "contype") = None
          /\ VisualOnly(g) /\ VisualOnly(Following(g))

\* the bodies of the document, and what each held before the visual-geom pass
Bodies == LET bs == findallDeep(tree, root, "body") IN {bs[i] : i \in DOMAIN bs}
ChildrenBefore(b) ==
    IF b = RootBody
    THEN SubSeq(tree[b].children, 1, 5) \o ItemsBefore
    ELSE loaded[b].children
Inserted == {Following(g) : g \in GeomsBefore}

\* pos and quat are copied when present
CopiedWhenPresent(g, n, k) ==
    k \in DOMAIN loaded[g].attrib =>
        k \in DOMAIN tree[n].attrib /\ tree[n].attrib[k] = loaded[g].attrib[k]

\* pos and quat are copied when present and not empty, and are left out otherwise
CopiedWhenNotEmpty(g, n, k) ==
    IF k \in DOMAIN loaded[g].attrib /\ loaded[g].attrib[k] # Str("")
    THEN k \in DOMAIN tree[n].attrib /\ tree[n].attrib[k] = loaded[g].attrib[k]
    ELSE k \notin DOMAIN tree[n].attrib

\* What C8 says of every body; pos and quat are copied when present, or, with
\* notEmpty, when present and not empty.
PassOncePerGeom(notEmpty) ==
    /\ \A b \in Bodies :
          LET before == ChildrenBefore(b)
              now == tree[b].children
          IN  /\ SelectSeq(now, LAMBDA c : c \notin Inserted) = before
              /\ Len(SelectSeq(now, LAMBDA c : tree[c].tag = "geom"))
                    = 2 * Len(SelectSeq(before, LAMBDA c : tree[c].tag = "geom"))
    /\ \A g \in GeomsBefore :
          LET n == Following(g)
          IN  /\ get(tree, g, "class") = Str("visualgeom")
              /\ n \in Added /\ tree[n].tag = "geom"
              /\ \A h \in GeomsBefore : h # g => Following(h) # n
              /\ get(tree, n, "contype") = Str("0") /\ get(tree, n, "conaffinity") = Str("0")
              /\ get(tree, n, "group") = Str("1") /\ get(tree, n, "density") = Str("0")
              /\ \A k \in {"type", "rgba", "mesh"} :
                    k \in DOMAIN tree[n].attrib /\ tree[n].attrib[k] = get(loaded, g, k)
              /\ \A k \in {"pos", "quat"} :
                    IF notEmpty THEN CopiedWhenNotEmpty(g, n, k) ELSE CopiedWhenPresent(g, n, k)

\* C8 as claimed: in every body each geom that was there before the pass gets class
\* visualgeom and exactly one new geom right after it, with contype 0, conaffinity 0,
\* group 1, density 0 and the original's type, rgba, mesh and, when present, pos and
\* quat; the geoms of each body double and the other children keep their order.
C8_EachGeomOnceCopyWhenPresent == Adapted => PassOncePerGeom(FALSE)

\* C8 as amended: the same, with pos and quat copied when present and not empty.
C8_EachGeomOnceCopyWhenNotEmpty == Adapted => PassOncePerGeom(TRUE)

C8_Witness ==
    /\ mpc = "adapted"
    /\ Len(ItemsBefore) = 2
    /\ \A i \in DOMAIN ItemsBefore : tree[ItemsBefore[i]].tag = "geom"
    /\ get(loaded, ItemsBefore[1], "pos") = Str("")
    /\ Truthy(get(loaded, ItemsBefore[2], "pos"))
    /\ Len(tree[RootBody].children) = 9
====
